---- MODULE Spec2Model ----
(***************************************************************************)
(* The feedback record store of scripts/feedback_system.py                 *)
(* (class FeedbackSystem), modelled as a state machine over the backing    *)
(* directory tree: one file per record, one directory per feedback type.   *)
(*                                                                         *)
(* A stored record is a Python dict, modelled as a TLA+ function from its  *)
(* keys to its values.  A file holds either the JSON text of a dict or the *)
(* partial text left behind by a json.dump that raised after open(.., 'w') *)
(* had truncated the file.                                                 *)
(***************************************************************************)
EXTENDS Integers, Sequences, FiniteSets, TLC

VARIABLES store,      \* the directory tree: <<type, id>> -> file content
          clock,      \* datetime.now(), in days since 2024-01-01
          uuid_count, \* number of uuid.uuid4() values drawn so far
          last,       \* the last completed call: operation, arguments, result
          nops,       \* number of completed calls
          procs,      \* concurrent callers: position and local variables
          outfile,    \* the document written by export_feedback
          target      \* a second, initially empty store the export is imported into

vars == <<store, clock, uuid_count, last, nops, procs, outfile, target>>

----------------------------------------------------------------------------
(* Bounds of the model *)

MaxOps == 4         \* completed calls in one behaviour
MaxUuid == 3        \* uuid4 values drawn (records submitted + comments added)
MaxTicks == 1       \* days the clock may advance
StartDay == 31      \* the day the store is constructed (2024-02-01)

----------------------------------------------------------------------------
(* Enum-like classes *)

\* the order in which every scan walks the type directories
TypeOrder == <<"issue", "improvement", "question", "compliance", "other">>

FeedbackType == {TypeOrder[n] : n \in 1..Len(TypeOrder)}

FeedbackStatus == {"new", "acknowledged", "in_progress", "resolved", "closed", "rejected"}

FeedbackPriority == {"low", "medium", "high", "critical"}

----------------------------------------------------------------------------
(* Python values *)

None == "<None>"

\* a value json.dump cannot encode (a set, a datetime, an object)
NonSerializable == "<object>"

\* the keys of a record whose values are strings in this model
ScalarKeys == {"id", "type", "title", "description", "priority", "status",
               "created_at", "updated_at"}

\* dict.get(key, default)
DictGet(d, key, default) == IF key \in DOMAIN d THEN d[key] ELSE default

\* d[key] = value
DictSet(d, key, value) ==
    [k \in (DOMAIN d) \cup {key} |-> IF k = key THEN value ELSE d[k]]

\* Python truthiness of a string-or-None argument
Truthy(v) == v # None /\ v # ""

\* str(uuid.uuid4()): the n-th value drawn; no value is drawn twice
uuid4(n) == "u" \o ToString(n)

----------------------------------------------------------------------------
(* Time: datetime.now().isoformat(), datetime.fromisoformat(s).timestamp() *)

LastDay == StartDay + MaxTicks + 1

TwoDigits(n) == IF n < 10 THEN "0" \o ToString(n) ELSE ToString(n)

\* datetime(2024, 1, 1) + d days, formatted by isoformat()
isoformat(d) ==
    IF d < 31 THEN "2024-01-" \o TwoDigits(d + 1) \o "T00:00:00"
              ELSE "2024-02-" \o TwoDigits(d - 30) \o "T00:00:00"

ValueError == -1

\* datetime.fromisoformat(s): the day, or ValueError when s is no timestamp
fromisoformat(s) ==
    IF \E d \in 0..LastDay : isoformat(d) = s
    THEN CHOOSE d \in 0..LastDay : isoformat(d) = s
    ELSE ValueError

\* datetime.timestamp(): seconds since the model's epoch
timestamp(d) == d * 24 * 60 * 60

----------------------------------------------------------------------------
(* Files *)

\* json.dump raises on a value it cannot encode
Serializable(data) ==
    /\ \A k \in (DOMAIN data) \cap ScalarKeys : data[k] # NonSerializable
    /\ "context" \in DOMAIN data =>
           \A kv \in data["context"] : kv[2] # NonSerializable

\* what json.dump leaves in a file it could not finish writing
Partial == [partial |-> TRUE]

\* json.dump(data, f): the text written to the file
json_dump(data) == IF Serializable(data) THEN [json |-> data] ELSE Partial

JSONDecodeError == [error |-> "JSONDecodeError"]

\* json.load(f): the dict, or JSONDecodeError
json_load(content) ==
    IF "json" \in DOMAIN content THEN content.json ELSE JSONDecodeError

IsDict(v) == "error" \notin DOMAIN v

\* os.path.exists(os.path.join(feedback_dir, feedback_type, id + ".json"))
path_exists(st, feedback_type, feedback_id) ==
    <<feedback_type, feedback_id>> \in DOMAIN st

\* the directory feedback_dir itself
RootDir == "."

NoDirectory == "<no directory>"

\* os.path.join(feedback_dir, feedback_type): the directory the path names.
\* A type of the closed set names its partition, and so does that type
\* followed by a slash; the empty string names feedback_dir itself; any other
\* string of this model names a directory that does not exist.
join_dir(feedback_type) ==
    IF feedback_type \in FeedbackType THEN feedback_type
    ELSE IF feedback_type = "" THEN RootDir
    ELSE IF \E t \in FeedbackType : feedback_type = t \o "/"
         THEN CHOOSE t \in FeedbackType : feedback_type = t \o "/"
         ELSE NoDirectory

\* with open(path, 'w') as f: json.dump(data, f)
\* open() raises when the directory does not exist and leaves everything as
\* it was; otherwise it truncates the file, and json.dump writes the text or
\* raises part-way.  exc is the exception raised, "" when there is none.
write_json(st, feedback_type, feedback_id, data) ==
    IF join_dir(feedback_type) = NoDirectory
    THEN [st |-> st, exc |-> "FileNotFoundError"]
    ELSE LET path == <<join_dir(feedback_type), feedback_id>>
             text == json_dump(data)
         IN [st  |-> [p \in (DOMAIN st) \cup {path} |->
                          IF p = path THEN text ELSE st[p]],
             exc |-> IF text = Partial THEN "TypeError" ELSE ""]

EmptyStore == [p \in {} |-> Partial]

----------------------------------------------------------------------------
(* FeedbackSystem.get_feedback *)

NotFound == [error |-> "None"]

RECURSIVE get_feedback_from(_, _, _)
get_feedback_from(st, feedback_id, n) ==
    IF n > Len(TypeOrder) THEN NotFound
    ELSE IF path_exists(st, TypeOrder[n], feedback_id)
         THEN LET data == json_load(st[<<TypeOrder[n], feedback_id>>])
              IN IF IsDict(data) THEN data ELSE NotFound
         ELSE get_feedback_from(st, feedback_id, n + 1)

get_feedback(st, feedback_id) == get_feedback_from(st, feedback_id, 1)

----------------------------------------------------------------------------
(* FeedbackSystem.submit_feedback *)

\* submit_record with the context left out of the record
submit_record_nocontext(feedback_id, feedback_type, title, description, priority, tags, context, now) ==
    [id          |-> feedback_id,
     type        |-> IF feedback_type \in FeedbackType THEN feedback_type ELSE "other",
     title       |-> title,
     description |-> description,
     priority    |-> IF priority \in FeedbackPriority THEN priority ELSE "medium",
     tags        |-> tags,
     context     |-> {},
     status      |-> "new",
     created_at  |-> isoformat(now),
     updated_at  |-> isoformat(now),
     comments    |-> <<>>]

\* tags is a list of strings and context a mapping, given as the set of its
\* <<key, value>> items; `tags or []` and `context or {}` leave both as given
submit_record(feedback_id, feedback_type, title, description, priority, tags, context, now) ==
    [id          |-> feedback_id,
     type        |-> IF feedback_type \in FeedbackType THEN feedback_type ELSE "other",
     title       |-> title,
     description |-> description,
     priority    |-> IF priority \in FeedbackPriority THEN priority ELSE "medium",
     tags        |-> tags,
     context     |-> context,
     status      |-> "new",
     created_at  |-> isoformat(now),
     updated_at  |-> isoformat(now),
     comments    |-> <<>>]

\* submit_feedback that refuses a type or a priority outside the closed sets
submit_feedback_strict(st, feedback_id, feedback_type, title, description, priority, tags, context, now) ==
    LET data == submit_record(feedback_id, feedback_type, title, description,
                              priority, tags, context, now)
        w == write_json(st, data.type, feedback_id, data)
    IN IF feedback_type \notin FeedbackType \/ priority \notin FeedbackPriority
       THEN [st |-> st, ret |-> ""]
       ELSE [st |-> w.st, ret |-> IF w.exc = "" THEN feedback_id ELSE ""]

\* the store and the returned id ("" on failure)
submit_feedback(st, feedback_id, feedback_type, title, description, priority, tags, context, now) ==
    LET data == submit_record(feedback_id, feedback_type, title, description,
                              priority, tags, context, now)
        w == write_json(st, data.type, feedback_id, data)
    IN [st |-> w.st, ret |-> IF w.exc = "" THEN feedback_id ELSE ""]

----------------------------------------------------------------------------
(* FeedbackSystem.update_feedback *)

\* apply_updates without the test that skips "id" and "created_at"
apply_updates_unprotected(feedback_data, updates) ==
    [k \in (DOMAIN feedback_data) \cup (DOMAIN updates) |->
        IF k \in DOMAIN updates THEN updates[k] ELSE feedback_data[k]]

\* for key, value in updates.items(): skip "id" and "created_at"
apply_updates(feedback_data, updates) ==
    LET keys == (DOMAIN updates) \ {"id", "created_at"}
    IN [k \in (DOMAIN feedback_data) \cup keys |->
           IF k \in keys THEN updates[k] ELSE feedback_data[k]]

\* the first half of update_feedback: the record is read and changed in
\* memory; NotFound when get_feedback returns nothing
update_load(st, feedback_id, updates, now) ==
    LET feedback_data == get_feedback(st, feedback_id)
    IN IF ~IsDict(feedback_data) THEN NotFound
       ELSE DictSet(apply_updates(feedback_data, updates), "updated_at", isoformat(now))

\* save_feedback with the file opened for appending: the text is added to
\* what the file holds, which no longer parses
save_feedback_append(st, feedback_id, feedback_data) ==
    IF feedback_data["type"] = None
    THEN [st |-> st, ret |-> FALSE, raised |-> "TypeError"]
    ELSE LET w == write_json(st, feedback_data["type"], feedback_id, feedback_data)
         IN [st |-> IF path_exists(st, feedback_data["type"], feedback_id)
                    THEN [p \in DOMAIN w.st |->
                             IF p = <<feedback_data["type"], feedback_id>>
                             THEN Partial ELSE w.st[p]]
                    ELSE w.st,
             ret |-> (w.exc = ""), raised |-> ""]

\* save_feedback that writes only to a file that is still there
save_feedback_existing(st, feedback_id, feedback_data) ==
    IF feedback_data["type"] = None
    THEN [st |-> st, ret |-> FALSE, raised |-> "TypeError"]
    ELSE IF ~path_exists(st, join_dir(feedback_data["type"]), feedback_id)
    THEN [st |-> st, ret |-> FALSE, raised |-> ""]
    ELSE LET w == write_json(st, feedback_data["type"], feedback_id, feedback_data)
         IN [st |-> w.st, ret |-> (w.exc = ""), raised |-> ""]

\* the second half of update_feedback and of add_comment: the whole record
\* is written to the file of its type; the store, the returned bool, and the
\* exception that escapes ("" if none)
save_feedback(st, feedback_id, feedback_data) ==
    IF feedback_data["type"] = None
    THEN [st |-> st, ret |-> FALSE, raised |-> "TypeError"]
    ELSE LET w == write_json(st, feedback_data["type"], feedback_id, feedback_data)
         IN [st |-> w.st, ret |-> (w.exc = ""), raised |-> ""]

\* update_feedback that creates the record, as type other, when the id is
\* not found
update_feedback_upsert(st, feedback_id, updates, now) ==
    LET feedback_data == update_load(st, feedback_id, updates, now)
    IN IF ~IsDict(feedback_data)
       THEN save_feedback(st, feedback_id,
                [k \in (DOMAIN updates) \cup {"id", "type"} |->
                    IF k = "id" THEN feedback_id
                    ELSE IF k = "type" THEN "other" ELSE updates[k]])
       ELSE save_feedback(st, feedback_id, feedback_data)

update_feedback(st, feedback_id, updates, now) ==
    LET feedback_data == update_load(st, feedback_id, updates, now)
    IN IF ~IsDict(feedback_data)
       THEN [st |-> st, ret |-> FALSE, raised |-> ""]
       ELSE save_feedback(st, feedback_id, feedback_data)

----------------------------------------------------------------------------
(* FeedbackSystem.add_comment *)

comment_data(comment_id, author, content, now) ==
    [id |-> comment_id, author |-> author, content |-> content,
     created_at |-> isoformat(now)]

KeyError == [error |-> "KeyError"]

\* comment_load with the new comment put in front of the stored comments
comment_load_prepend(st, feedback_id, comment, author, comment_id, now) ==
    LET feedback_data == get_feedback(st, feedback_id)
    IN IF ~IsDict(feedback_data) THEN NotFound
       ELSE IF "comments" \notin DOMAIN feedback_data THEN KeyError
       ELSE DictSet(DictSet(feedback_data, "comments",
                            <<comment_data(comment_id, author, comment, now)>>
                                \o feedback_data["comments"]),
                    "updated_at", isoformat(now))

\* the first half of add_comment: the record is read and the comment is
\* appended in memory; NotFound when get_feedback returns nothing, KeyError
\* when the record has no "comments"
comment_load(st, feedback_id, comment, author, comment_id, now) ==
    LET feedback_data == get_feedback(st, feedback_id)
    IN IF ~IsDict(feedback_data) THEN NotFound
       ELSE IF "comments" \notin DOMAIN feedback_data THEN KeyError
       ELSE DictSet(DictSet(feedback_data, "comments",
                            Append(feedback_data["comments"],
                                   comment_data(comment_id, author, comment, now))),
                    "updated_at", isoformat(now))

add_comment(st, feedback_id, comment, author, comment_id, now) ==
    LET feedback_data == comment_load(st, feedback_id, comment, author, comment_id, now)
    IN IF feedback_data = NotFound
       THEN [st |-> st, ret |-> FALSE, raised |-> ""]
       ELSE IF feedback_data = KeyError
       THEN [st |-> st, ret |-> FALSE, raised |-> "KeyError"]
       ELSE save_feedback(st, feedback_id, feedback_data)

----------------------------------------------------------------------------
(* FeedbackSystem.list_feedback *)

\* os.listdir(directory): the files of one directory, in the order `order`
\* (a sequence of ids) lists them; the order is the file system's choice
RECURSIVE listdir(_, _, _)
listdir(st, feedback_type, order) ==
    IF order = <<>> THEN <<>>
    ELSE (IF path_exists(st, feedback_type, Head(order))
          THEN <<(<<feedback_type, Head(order)>>)>> ELSE <<>>)
         \o listdir(st, feedback_type, Tail(order))

\* the files met by a scan of the directories `types`, in scan order
RECURSIVE scan_paths(_, _, _)
scan_paths(st, types, order) ==
    IF types = <<>> THEN <<>>
    ELSE listdir(st, Head(types), order) \o scan_paths(st, Tail(types), order)

\* directories without the type filter: every directory is searched
directories_all(feedback_type) == TypeOrder

\* the directories list_feedback searches
directories(feedback_type) ==
    IF Truthy(feedback_type) /\ feedback_type \in FeedbackType
    THEN <<feedback_type>> ELSE TypeOrder

\* passes_filter with a tags filter that one requested tag satisfies
passes_filter_any(feedback_data, status, priority, tags) ==
    /\ ~(Truthy(status) /\ DictGet(feedback_data, "status", None) # status)
    /\ ~(Truthy(priority) /\ DictGet(feedback_data, "priority", None) # priority)
    /\ ~(tags # <<>> /\
         ~(\E n \in 1..Len(tags) :
              \E m \in 1..Len(DictGet(feedback_data, "tags", <<>>)) :
                  DictGet(feedback_data, "tags", <<>>)[m] = tags[n]))

passes_filter(feedback_data, status, priority, tags) ==
    /\ ~(Truthy(status) /\ DictGet(feedback_data, "status", None) # status)
    /\ ~(Truthy(priority) /\ DictGet(feedback_data, "priority", None) # priority)
    /\ ~(tags # <<>> /\
         ~(\A n \in 1..Len(tags) :
              \E m \in 1..Len(DictGet(feedback_data, "tags", <<>>)) :
                  DictGet(feedback_data, "tags", <<>>)[m] = tags[n]))

\* the scan loop: unreadable files are skipped, matches are appended, and the
\* scan stops as soon as `limit` results have been collected
RECURSIVE scan_results(_, _, _, _, _, _, _)
scan_results(st, paths, status, priority, tags, limit, results) ==
    IF paths = <<>> THEN results
    ELSE LET feedback_data == json_load(st[Head(paths)])
         IN IF IsDict(feedback_data)
               /\ passes_filter(feedback_data, status, priority, tags)
            THEN IF Len(results) + 1 >= limit
                 THEN Append(results, feedback_data)
                 ELSE scan_results(st, Tail(paths), status, priority, tags, limit,
                                   Append(results, feedback_data))
            ELSE scan_results(st, Tail(paths), status, priority, tags, limit, results)

\* Python's order on the strings that occur as created_at in this model: ""
\* first, then timestamps in time order, then text starting with a letter
str_key(s) ==
    IF s = "" THEN -2
    ELSE IF s = "1999-01-01" THEN -1
    ELSE IF fromisoformat(s) # ValueError THEN fromisoformat(s)
    ELSE LastDay + 1

\* sort_key for a sort that puts the oldest first
sort_key_oldest(feedback_data) == 0 - str_key(DictGet(feedback_data, "created_at", ""))

sort_key(feedback_data) == str_key(DictGet(feedback_data, "created_at", ""))

\* results.sort(key=..., reverse=True): stable, equal keys keep scan order
RECURSIVE insert_desc(_, _)
insert_desc(sorted, x) ==
    IF sorted = <<>> THEN <<x>>
    ELSE IF sort_key(Head(sorted)) >= sort_key(x)
         THEN <<Head(sorted)>> \o insert_desc(Tail(sorted), x)
         ELSE <<x>> \o sorted

RECURSIVE sort_desc(_, _)
sort_desc(results, sorted) ==
    IF results = <<>> THEN sorted
    ELSE sort_desc(Tail(results), insert_desc(sorted, Head(results)))

\* Truncate without the slice
Truncate_all(results, limit) == results

\* results[:limit], limit >= 0
Truncate(results, limit) ==
    IF Len(results) <= limit THEN results ELSE SubSeq(results, 1, limit)

\* list_feedback with a scan that does not stop at the limit: every match
\* is collected and sorted before the list is cut
list_feedback_newest(st, feedback_type, status, priority, tags, limit, order) ==
    Truncate(sort_desc(scan_results(st, scan_paths(st, directories(feedback_type), order),
                                    status, priority, tags,
                                    Cardinality(DOMAIN st) + 1, <<>>),
                       <<>>),
             limit)

list_feedback(st, feedback_type, status, priority, tags, limit, order) ==
    Truncate(sort_desc(scan_results(st, scan_paths(st, directories(feedback_type), order),
                                    status, priority, tags, limit, <<>>),
                       <<>>),
             limit)

----------------------------------------------------------------------------
(* FeedbackSystem.get_feedback_stats *)

\* the files of the five directories that json.load reads
readable_files(st) ==
    {p \in DOMAIN st : p[1] \in FeedbackType /\ IsDict(json_load(st[p]))}

\* every readable file adds one to total, to the counter of the directory it
\* is in, and to the counters of its status and priority when these are keys
\* of the counters; a record without status counts as "new", one without
\* priority as "medium".  The counts do not depend on the scan order.
get_feedback_stats(st) ==
    [total       |-> Cardinality(readable_files(st)),
     by_type     |-> [t \in FeedbackType |->
                         Cardinality({p \in readable_files(st) : p[1] = t})],
     by_status   |-> [status \in FeedbackStatus |->
                         Cardinality({p \in readable_files(st) :
                             DictGet(json_load(st[p]), "status", "new") = status})],
     by_priority |-> [priority \in FeedbackPriority |->
                         Cardinality({p \in readable_files(st) :
                             DictGet(json_load(st[p]), "priority", "medium") = priority})]]

----------------------------------------------------------------------------
(* FeedbackSystem.export_feedback *)

ExportLimit == 1000

\* the document written to output_path
export_feedback(st, feedback_type, status, order, now) ==
    LET feedback_list == list_feedback(st, feedback_type, status, None, <<>>,
                                       ExportLimit, order)
    IN [exported_at |-> isoformat(now),
        total       |-> Len(feedback_list),
        feedback    |-> feedback_list]

----------------------------------------------------------------------------
(* FeedbackSystem.import_feedback *)

\* an element of the "feedback" list that is not a JSON object
NotADict == [notadict |-> TRUE]

\* the loop over feedback_list; an AttributeError on an element that has no
\* .get leaves the loop and makes the call return 0
RECURSIVE import_loop(_, _, _)
import_loop(st, feedback_list, imported_count) ==
    IF feedback_list = <<>> THEN [st |-> st, ret |-> imported_count]
    ELSE LET feedback_data == Head(feedback_list)
             feedback_id == DictGet(feedback_data, "id", None)
             feedback_type == DictGet(feedback_data, "type", None)
         IN IF feedback_data = NotADict
            THEN [st |-> st, ret |-> 0]
            ELSE IF ~Truthy(feedback_id) \/ ~Truthy(feedback_type)
            THEN import_loop(st, Tail(feedback_list), imported_count)
            ELSE IF IsDict(get_feedback(st, feedback_id))
            THEN import_loop(st, Tail(feedback_list), imported_count)
            ELSE LET w == write_json(st, feedback_type, feedback_id, feedback_data)
                 IN import_loop(w.st, Tail(feedback_list),
                                IF w.exc = "" THEN imported_count + 1
                                              ELSE imported_count)

import_feedback(st, import_data) ==
    import_loop(st, DictGet(import_data, "feedback", <<>>), 0)

----------------------------------------------------------------------------
(* FeedbackSystem.cleanup_old_feedback *)

cutoff_date(days, now) == timestamp(now) - (days * 24 * 60 * 60)

\* cleanup_removes with `except ValueError: continue` left out
cleanup_removes_unparsed(content, days, status, now) ==
    LET feedback_data == json_load(content)
        created_at == DictGet(feedback_data, "created_at", "")
    IN /\ IsDict(feedback_data)
       /\ created_at # ""
       /\ ~(timestamp(fromisoformat(created_at)) > cutoff_date(days, now))
       /\ ~(Truthy(status) /\ DictGet(feedback_data, "status", None) # status)

\* the test the scan applies to one file: TRUE when the file is removed
cleanup_removes(content, days, status, now) ==
    LET feedback_data == json_load(content)
        created_at == DictGet(feedback_data, "created_at", "")
    IN /\ IsDict(feedback_data)
       /\ created_at # ""
       /\ fromisoformat(created_at) # ValueError
       /\ ~(timestamp(fromisoformat(created_at)) > cutoff_date(days, now))
       /\ ~(Truthy(status) /\ DictGet(feedback_data, "status", None) # status)

\* each file of the five directories is read and judged on its own, so the
\* scan order has no effect; os.remove takes the judged files out of the tree
cleanup_old_feedback(st, days, status, now) ==
    LET removed == {p \in DOMAIN st : /\ p[1] \in FeedbackType
                                      /\ cleanup_removes(st[p], days, status, now)}
    IN [st  |-> [p \in (DOMAIN st) \ removed |-> st[p]],
        ret |-> Cardinality(removed)]

----------------------------------------------------------------------------
(* Arguments the callers pass *)

RichInput ==
    [feedback_type |-> "issue", title |-> "T1", description |-> "D1",
     priority |-> "high", tags |-> <<"a", "b">>, context |-> {<<"agent", "a1">>}]

PlainInput ==
    [feedback_type |-> "other", title |-> "T2", description |-> "D2",
     priority |-> "low", tags |-> <<>>, context |-> {}]

\* a context json.dump cannot encode
UnencodableInput ==
    [feedback_type |-> "question", title |-> "T2", description |-> "D1",
     priority |-> "medium", tags |-> <<>>, context |-> {<<"when", NonSerializable>>}]

SubmitInputs == {RichInput, PlainInput}

\* the payload of the spec's example: id and created_at must be ignored
ProtectedPayload ==
    [id |-> "other-id", created_at |-> "1999-01-01", status |-> "resolved"]

\* a payload that changes the type to another member of the closed set
RetypePayload == [type |-> "other"]

\* a payload that carries a comments list
CommentsPayload == [comments |-> <<>>]

\* a payload with a value json.dump cannot encode
UnencodablePayload == [title |-> NonSerializable]

UpdatePayloads == {ProtectedPayload, RetypePayload, CommentsPayload, UnencodablePayload}

CommentInputs == {[comment |-> "hello", author |-> "alice"]}

\* records of an import document, created `age` days before StartDay
foreign_record(feedback_id, feedback_type, status, age) ==
    [id |-> feedback_id, type |-> feedback_type, title |-> "T3",
     description |-> "D3", priority |-> "low", tags |-> <<"a">>,
     context |-> {}, status |-> status,
     created_at |-> isoformat(StartDay - age),
     updated_at |-> isoformat(StartDay - age), comments |-> <<>>]

\* a document whose records are 31, 30 and 29 days old on StartDay, one with
\* a created_at that is no timestamp and one without created_at
AgedDocument ==
    [exported_at |-> isoformat(StartDay), total |-> 5,
     feedback |-> << foreign_record("x31", "issue", "new", 31),
                     foreign_record("x30", "issue", "resolved", 30),
                     foreign_record("x29", "other", "resolved", 29),
                     DictSet(foreign_record("xbad", "other", "resolved", 31),
                             "created_at", "not-a-date"),
                     [k \in (DOMAIN foreign_record("xnone", "question", "resolved", 31))
                            \ {"created_at"} |->
                         foreign_record("xnone", "question", "resolved", 31)[k]] >>]

\* a document that names the id of the first submitted record, as type other
ClashDocument ==
    [exported_at |-> isoformat(StartDay), total |-> 1,
     feedback |-> << foreign_record(uuid4(1), "other", "new", 0) >>]

\* a caller can name an id only once uuid4 has produced it
ImportDocuments(count) == IF count >= 1 THEN {ClashDocument} ELSE {}

StoredIds(st) == {p[2] : p \in DOMAIN st}

\* the ids a caller names: the first two ids drawn, and one that names nothing
CallerIds(count) == {uuid4(n) : n \in 1..(IF count < 2 THEN count ELSE 2)} \cup {"missing"}

----------------------------------------------------------------------------
(* State machine: one caller, one call at a time *)

NoDocument == [nofile |-> TRUE]

Procs == {1, 2}

Idle == [pc |-> "idle"]

Init ==
    /\ store = EmptyStore
    /\ clock = StartDay
    /\ uuid_count = 0
    /\ last = [op |-> "init"]
    /\ nops = 0
    /\ procs = [p \in Procs |-> Idle]
    /\ outfile = NoDocument
    /\ target = EmptyStore

\* time passes between calls
Tick ==
    /\ clock < StartDay + MaxTicks
    /\ clock' = clock + 1
    /\ UNCHANGED <<store, uuid_count, last, nops, procs, outfile, target>>

Submit(in) ==
    /\ nops < MaxOps
    /\ uuid_count < MaxUuid
    /\ LET r == submit_feedback(store, uuid4(uuid_count + 1), in.feedback_type,
                                in.title, in.description, in.priority, in.tags,
                                in.context, clock)
       IN /\ store' = r.st
          /\ last' = [op |-> "submit", args |-> in, ret |-> r.ret]
    /\ uuid_count' = uuid_count + 1
    /\ nops' = nops + 1
    /\ UNCHANGED <<clock, procs, outfile, target>>

Get(feedback_id) ==
    /\ nops < MaxOps
    /\ last' = [op |-> "get", feedback_id |-> feedback_id,
                ret |-> get_feedback(store, feedback_id)]
    /\ nops' = nops + 1
    /\ UNCHANGED <<store, clock, uuid_count, procs, outfile, target>>

Update(feedback_id, updates) ==
    /\ nops < MaxOps
    /\ LET r == update_feedback(store, feedback_id, updates, clock)
       IN /\ store' = r.st
          /\ last' = [op |-> "update", feedback_id |-> feedback_id,
                      updates |-> updates, ret |-> r.ret, raised |-> r.raised]
    /\ nops' = nops + 1
    /\ UNCHANGED <<clock, uuid_count, procs, outfile, target>>

\* uuid4 is drawn only once the record has been found
AddComment(feedback_id, in) ==
    /\ nops < MaxOps
    /\ IsDict(get_feedback(store, feedback_id)) => uuid_count < MaxUuid
    /\ LET r == add_comment(store, feedback_id, in.comment, in.author,
                            uuid4(uuid_count + 1), clock)
       IN /\ store' = r.st
          /\ last' = [op |-> "add_comment", feedback_id |-> feedback_id,
                      args |-> in, ret |-> r.ret, raised |-> r.raised]
    /\ uuid_count' = IF IsDict(get_feedback(store, feedback_id))
                     THEN uuid_count + 1 ELSE uuid_count
    /\ nops' = nops + 1
    /\ UNCHANGED <<clock, procs, outfile, target>>

Import(import_data) ==
    /\ nops < MaxOps
    /\ LET r == import_feedback(store, import_data)
       IN /\ store' = r.st
          /\ last' = [op |-> "import", import_data |-> import_data, ret |-> r.ret]
    /\ nops' = nops + 1
    /\ UNCHANGED <<clock, uuid_count, procs, outfile, target>>

Cleanup(days, status) ==
    /\ nops < MaxOps
    /\ LET r == cleanup_old_feedback(store, days, status, clock)
       IN /\ store' = r.st
          /\ last' = [op |-> "cleanup", days |-> days, status |-> status,
                      ret |-> r.ret]
    /\ nops' = nops + 1
    /\ UNCHANGED <<clock, uuid_count, procs, outfile, target>>

Next ==
    \/ Tick
    \/ \E in \in SubmitInputs : Submit(in)
    \/ \E feedback_id \in CallerIds(uuid_count) : Get(feedback_id)
    \/ \E feedback_id \in CallerIds(uuid_count), updates \in UpdatePayloads :
           Update(feedback_id, updates)
    \/ \E feedback_id \in CallerIds(uuid_count), in \in CommentInputs :
           AddComment(feedback_id, in)
    \/ \E import_data \in ImportDocuments(uuid_count) : Import(import_data)
    \/ Cleanup(0, None)

Spec == Init /\ [][Next]_vars

----------------------------------------------------------------------------
(* State machine for submit: every type and priority of the closed sets *)

MaxSubmits == 2     \* submit calls in one behaviour of SpecSubmit

ValidSubmitInputs ==
    {[feedback_type |-> t, title |-> RichInput.title,
      description |-> RichInput.description, priority |-> p,
      tags |-> RichInput.tags, context |-> RichInput.context] :
         t \in FeedbackType, p \in FeedbackPriority} \cup {PlainInput}

NextSubmit ==
    \/ Tick
    \/ \E in \in ValidSubmitInputs \cup {UnencodableInput} :
           uuid_count < MaxSubmits /\ Submit(in)
    \/ \E feedback_id \in CallerIds(uuid_count) : Get(feedback_id)

SpecSubmit == Init /\ [][NextSubmit]_vars

\* C1: when submit was called with a type and a priority of the closed sets
\* and returned a non-empty id, get(id) returns a record with exactly the
\* submitted title, description, tags, context, type and priority, with
\* status "new" and no comments.
C1_SubmitThenGet ==
    (/\ last.op = "submit"
     /\ last.args.feedback_type \in FeedbackType
     /\ last.args.priority \in FeedbackPriority
     /\ last.ret # "")
    => LET r == get_feedback(store, last.ret)
       IN /\ IsDict(r)
          /\ r["id"] = last.ret
          /\ r["title"] = last.args.title
          /\ r["description"] = last.args.description
          /\ r["tags"] = last.args.tags
          /\ r["context"] = last.args.context
          /\ r["type"] = last.args.feedback_type
          /\ r["priority"] = last.args.priority
          /\ r["status"] = "new"
          /\ r["comments"] = <<>>

\* a second record has just been submitted, with tags and context, while the
\* file of the first submit is in the store
C1_Witness ==
    /\ last.op = "submit"
    /\ last.ret = uuid4(2)
    /\ last.args.tags = <<"a", "b">>
    /\ last.args.context # {}
    /\ last.args.feedback_type = "compliance"
    /\ last.args.priority = "critical"
    /\ \E p \in DOMAIN store : p[2] = uuid4(1)

----------------------------------------------------------------------------
(* Properties of the store under sequences of calls (Spec) *)

\* the file at path p holds a readable record
IsRecord(st, p) == p \in DOMAIN st /\ IsDict(json_load(st[p]))

RecordAt(st, p) == json_load(st[p])

IsPrefix(s, t) == Len(s) <= Len(t) /\ SubSeq(t, 1, Len(s)) = s

\* C2: in every reachable state each record id is stored in at most one type
\* partition.
C2_OnePartitionPerId ==
    \A feedback_id \in StoredIds(store) :
        Cardinality({t \in FeedbackType : IsRecord(store, <<t, feedback_id>>)}) <= 1

\* C3: comments are append-only: in every step that keeps a record, the
\* record's comments before the step are a prefix of its comments after it.
C3_CommentsAppendOnly ==
    [][\A p \in (DOMAIN store) \cap (DOMAIN store') :
          (IsRecord(store, p) /\ IsRecord(store', p))
          => IsPrefix(RecordAt(store, p)["comments"], RecordAt(store', p)["comments"])]_vars

\* C4: an update never changes the id or created_at of the record, and the
\* payload {id, created_at, status} changes only status and updated_at: the
\* call succeeds, every other field of the record and every other file of
\* the store are as before.
C4_UpdateKeepsIdentity ==
    [][(/\ nops' = nops + 1
        /\ last'.op = "update"
        /\ IsDict(get_feedback(store, last'.feedback_id)))
       => LET old == get_feedback(store, last'.feedback_id)
              new == get_feedback(store', last'.feedback_id)
          IN /\ IsDict(new) => /\ new["id"] = old["id"]
                               /\ new["created_at"] = old["created_at"]
             /\ last'.updates = ProtectedPayload
                => /\ last'.ret = TRUE
                   /\ IsDict(new)
                   /\ DOMAIN new = DOMAIN old
                   /\ new["status"] = "resolved"
                   /\ new["updated_at"] = isoformat(clock)
                   /\ \A k \in (DOMAIN old) \ {"status", "updated_at"} :
                          new[k] = old[k]
                   /\ DOMAIN store' = DOMAIN store
                   /\ \A p \in DOMAIN store :
                          p # <<old["type"], last'.feedback_id>> => store'[p] = store[p]]_vars

\* the payload {id, created_at, status} has been applied, a day after the
\* record was created, to a record that has a comment
C4_Witness ==
    /\ last.op = "update"
    /\ last.updates = ProtectedPayload
    /\ last.ret = TRUE
    /\ LET r == get_feedback(store, last.feedback_id)
       IN /\ IsDict(r)
          /\ r["id"] = last.feedback_id
          /\ r["status"] = "resolved"
          /\ r["created_at"] = isoformat(StartDay)
          /\ r["updated_at"] = isoformat(StartDay + 1)
          /\ Len(r["comments"]) = 1

\* C8: import never mutates or removes a pre-existing record: every record
\* stored before an import call is stored, identical, after it.
C8_ImportKeepsRecords ==
    [][(nops' = nops + 1 /\ last'.op = "import")
       => \A p \in DOMAIN store :
              IsRecord(store, p) => (p \in DOMAIN store' /\ store'[p] = store[p])]_vars

\* C10: import is idempotent: a second import of the same document, with no
\* other call in between, returns 0 and leaves the store as it was.
C10_ImportIdempotent ==
    [][(/\ nops' = nops + 1
        /\ last.op = "import"
        /\ last'.op = "import"
        /\ last'.import_data = last.import_data)
       => (last'.ret = 0 /\ store' = store)]_vars

----------------------------------------------------------------------------
(* State machine for retention: imported records of known age, cleanup *)

RetentionIds == {"x31", "xbad"}

CleanupDays == {0, 30}

CleanupStatuses == {None, "resolved"}

NextRetention ==
    \/ Tick
    \/ Import(AgedDocument)
    \/ \E feedback_id \in RetentionIds : Update(feedback_id, ProtectedPayload)
    \/ \E days \in CleanupDays, status \in CleanupStatuses : Cleanup(days, status)

SpecRetention == Init /\ [][NextRetention]_vars

\* C6: cleanup removes a record if and only if its created_at parses, is
\* strictly older than the cutoff (now minus older_than_days days) and, when
\* a status filter is given, its status equals the filter; a record whose
\* created_at equals the cutoff is retained.
C6_CleanupRemovesIffOlder ==
    [][(nops' = nops + 1 /\ last'.op = "cleanup")
       => \A p \in DOMAIN store :
              IsRecord(store, p)
              => LET r == RecordAt(store, p)
                     created_at == DictGet(r, "created_at", "")
                 IN (p \notin DOMAIN store')
                    <=> (/\ fromisoformat(created_at) # ValueError
                         /\ timestamp(fromisoformat(created_at))
                                < timestamp(clock) - last'.days * 24 * 60 * 60
                         /\ (Truthy(last'.status)
                                => DictGet(r, "status", None) = last'.status))]_vars

\* the record has no created_at, or one that is no timestamp
Undated(r) ==
    \/ "created_at" \notin DOMAIN r
    \/ fromisoformat(r["created_at"]) = ValueError

\* C7: cleanup never removes a record whose created_at is missing or cannot
\* be parsed, whatever older_than_days and the status filter are: the record
\* is stored, unchanged, after the call.
C7_CleanupKeepsUndated ==
    [][(nops' = nops + 1 /\ last'.op = "cleanup")
       => \A p \in DOMAIN store :
              (IsRecord(store, p) /\ Undated(RecordAt(store, p)))
              => (p \in DOMAIN store' /\ store'[p] = store[p])]_vars

\* cleanup(0) with the filter of their status has removed the dated records
\* and the records without a usable created_at are still stored
C7_Witness ==
    /\ last.op = "cleanup"
    /\ last.days = 0
    /\ last.status = "resolved"
    /\ last.ret >= 2
    /\ IsRecord(store, <<"other", "xbad">>)
    /\ RecordAt(store, <<"other", "xbad">>)["status"] = "resolved"
    /\ IsRecord(store, <<"question", "xnone">>)
    /\ "created_at" \notin DOMAIN RecordAt(store, <<"question", "xnone">>)
    /\ ~IsRecord(store, <<"other", "x29">>)

----------------------------------------------------------------------------
(* State machine for concurrent callers: two processes work on the first    *)
(* record; each call is a read step followed by a write step, with nothing  *)
(* that keeps the other process out in between                              *)

PriorityPayload == [priority |-> "critical"]

ConcurrentPayloads == {ProtectedPayload, PriorityPayload}

AllIdle == \A p \in Procs : procs[p].pc = "idle"

ConcurrentSubmit ==
    /\ AllIdle
    /\ uuid_count = 0
    /\ \E in \in SubmitInputs : Submit(in)

\* update_feedback up to `feedback_data["updated_at"] = ...`
BeginUpdate(p, updates) ==
    /\ procs[p].pc = "idle"
    /\ uuid_count >= 1
    /\ LET feedback_data == update_load(store, uuid4(1), updates, clock)
       IN /\ IsDict(feedback_data)
          /\ procs' = [procs EXCEPT ![p] =
                 [pc |-> "loaded", op |-> "update", feedback_id |-> uuid4(1),
                  change |-> updates, data |-> feedback_data, stale |-> FALSE]]
    /\ UNCHANGED <<store, clock, uuid_count, last, nops, outfile, target>>

\* add_comment up to `feedback_data["updated_at"] = ...`
BeginComment(p, in) ==
    /\ procs[p].pc = "idle"
    /\ uuid_count >= 1
    /\ uuid_count < MaxUuid
    /\ LET feedback_data == comment_load(store, uuid4(1), in.comment, in.author,
                                         uuid4(uuid_count + 1), clock)
       IN /\ IsDict(feedback_data)
          /\ procs' = [procs EXCEPT ![p] =
                 [pc |-> "loaded", op |-> "add_comment", feedback_id |-> uuid4(1),
                  change |-> [comment_id |-> uuid4(uuid_count + 1)],
                  data |-> feedback_data, stale |-> FALSE]]
    /\ uuid_count' = uuid_count + 1
    /\ UNCHANGED <<store, clock, last, nops, outfile, target>>

\* the rest of update_feedback or add_comment: the file is written and the
\* call returns; a process that has read the record and not yet written it
\* now holds a stale copy
Write(p) ==
    /\ procs[p].pc = "loaded"
    /\ LET r == save_feedback(store, procs[p].feedback_id, procs[p].data)
       IN /\ store' = r.st
          /\ procs' = [q \in Procs |->
                 IF q = p
                 THEN [pc |-> "done", op |-> procs[p].op,
                       feedback_id |-> procs[p].feedback_id,
                       change |-> procs[p].change, data |-> procs[p].data,
                       stale |-> procs[p].stale, ret |-> r.ret]
                 ELSE IF procs[q].pc = "loaded"
                         /\ procs[q].feedback_id = procs[p].feedback_id
                      THEN [procs[q] EXCEPT !.stale = TRUE]
                      ELSE procs[q]]
          /\ last' = [op |-> procs[p].op, feedback_id |-> procs[p].feedback_id,
                      ret |-> r.ret, raised |-> r.raised]
    /\ nops' = nops + 1
    /\ UNCHANGED <<clock, uuid_count, outfile, target>>

NextConcurrent ==
    \/ Tick
    \/ ConcurrentSubmit
    \/ \E p \in Procs, updates \in ConcurrentPayloads : BeginUpdate(p, updates)
    \/ \E p \in Procs, in \in CommentInputs : BeginComment(p, in)
    \/ \E p \in Procs : Write(p)

SpecConcurrent == Init /\ [][NextConcurrent]_vars

\* the record shows the change of the finished call pr
Reflects(record, pr) ==
    IF pr.op = "update"
    THEN \A k \in (DOMAIN pr.change) \ {"id", "created_at"} : record[k] = pr.change[k]
    ELSE \E n \in 1..Len(record["comments"]) :
             record["comments"][n]["id"] = pr.change.comment_id

\* C5: lost updates are possible: when two calls on the same id have both
\* returned success and the one that wrote last had read the record before
\* the other wrote, the stored record is exactly what the last writer
\* computed from its stale copy and the change of the other call is not in it.
C5_LastWriterWins ==
    \A p, q \in Procs :
        (/\ p # q
         /\ procs[p].pc = "done" /\ procs[q].pc = "done"
         /\ procs[p].ret /\ procs[q].ret
         /\ procs[q].stale)
        => LET final == get_feedback(store, uuid4(1))
           IN /\ final = procs[q].data
              /\ ~(procs[p].op = procs[q].op /\ procs[p].change = procs[q].change)
                 => ~Reflects(final, procs[p])

\* both calls returned success; the status update, written last from a copy
\* read before the comment was written, is stored and the comment is lost
C5_Witness ==
    /\ procs[1].pc = "done" /\ procs[2].pc = "done"
    /\ procs[1].ret /\ procs[2].ret
    /\ procs[1].op = "add_comment"
    /\ procs[2].op = "update" /\ procs[2].change = ProtectedPayload
    /\ procs[2].stale
    /\ get_feedback(store, uuid4(1))["status"] = "resolved"
    /\ get_feedback(store, uuid4(1))["comments"] = <<>>

----------------------------------------------------------------------------
(* State machine for export and import: the store is built by the calls of  *)
(* Spec, exported without filters, and the document is imported into a      *)
(* second store that is empty                                               *)

\* the orders in which os.listdir may yield the files named by ids
ListingOrders(ids) ==
    {order \in [1..Cardinality(ids) -> ids] :
        \A m, n \in 1..Cardinality(ids) : m # n => order[m] # order[n]}

\* export_feedback(output_path) without filters; output_path is writable
Export(order) ==
    /\ outfile = NoDocument
    /\ outfile' = export_feedback(store, None, None, order, clock)
    /\ last' = [op |-> "export", feedback_type |-> None, status |-> None, ret |-> TRUE]
    /\ nops' = nops + 1
    /\ UNCHANGED <<store, clock, uuid_count, procs, target>>

\* FeedbackSystem(empty_dir).import_feedback(output_path)
ImportIntoEmpty ==
    /\ last.op = "export"
    /\ LET r == import_feedback(EmptyStore, outfile)
       IN /\ target' = r.st
          /\ last' = [op |-> "import_into_empty", import_data |-> outfile, ret |-> r.ret]
    /\ nops' = nops + 1
    /\ UNCHANGED <<store, clock, uuid_count, procs, outfile>>

NextRoundTrip ==
    \/ outfile = NoDocument /\ Next
    \/ \E order \in ListingOrders(StoredIds(store)) : Export(order)
    \/ ImportIntoEmpty

SpecRoundTrip == Init /\ [][NextRoundTrip]_vars

\* the records a store holds, each with the partition it is stored in
Records(st) == {<<p[1], RecordAt(st, p)>> : p \in {q \in DOMAIN st : IsRecord(st, q)}}

\* C9: export without filters followed by import of the document into an
\* empty store yields a store that holds the same records, id for id and
\* field for field, comments included.
C9_ExportImportRoundTrip ==
    last.op = "import_into_empty" => Records(target) = Records(store)

----------------------------------------------------------------------------
(* State machine for import: documents whose records name a type of the     *)
(* closed set, a type outside it, or no type at all                         *)

\* a document with a record of a type that has no directory, a record
\* without a type, and a record of type issue
MixedDocument ==
    [exported_at |-> isoformat(StartDay), total |-> 3,
     feedback |-> << foreign_record("xbug", "bug", "new", 0),
                     [id |-> "xnotype", title |-> "T3", status |-> "new"],
                     foreign_record("xok", "issue", "new", 0) >>]

ImportedIds == {"xbug", "xnotype", "xok", "x29"}

NextImport ==
    \/ Tick
    \/ \E in \in SubmitInputs : Submit(in)
    \/ \E import_data \in {AgedDocument, MixedDocument} \cup ImportDocuments(uuid_count) :
           Import(import_data)
    \/ \E feedback_id \in ImportedIds : Get(feedback_id)

SpecImport == Init /\ [][NextImport]_vars

\* the positions of a document's list that hold a candidate for import into
\* st: a record with an id and a type whose id names no file of st
Candidates(st, feedback_list) ==
    {n \in 1..Len(feedback_list) :
        /\ Truthy(DictGet(feedback_list[n], "id", None))
        /\ Truthy(DictGet(feedback_list[n], "type", None))
        /\ feedback_list[n]["id"] \notin StoredIds(st)}

\* C11: import persists, verbatim and in the partition named by its type
\* field, every record of the document that has an id and a type and whose
\* id is not yet in the store; the returned count is the number of these
\* records, and after the call get(id) returns each of them.
C11_ImportPersistsCandidates ==
    [][(nops' = nops + 1 /\ last'.op = "import")
       => LET feedback_list == last'.import_data.feedback
              cands == Candidates(store, feedback_list)
          IN /\ \A n \in cands :
                    /\ IsRecord(store', <<feedback_list[n]["type"], feedback_list[n]["id"]>>)
                    /\ RecordAt(store', <<feedback_list[n]["type"], feedback_list[n]["id"]>>)
                           = feedback_list[n]
                    /\ get_feedback(store', feedback_list[n]["id"]) = feedback_list[n]
             /\ last'.ret = Cardinality(cands)]_vars

----------------------------------------------------------------------------
(* Calls on ids, and with results, of every kind (Spec) *)

\* C12: update and add_comment called with an id that names no stored record
\* return False and write nothing: the store after the call is the store
\* before it.
C12_MissingIdNoWrite ==
    [][(/\ nops' = nops + 1
        /\ last'.op \in {"update", "add_comment"}
        /\ last'.feedback_id \notin StoredIds(store))
       => (last'.ret = FALSE /\ last'.raised = "" /\ store' = store)]_vars

\* an update of an id that was never stored has returned False while the
\* store holds the record of an earlier submit, untouched
C12_Witness ==
    /\ last.op = "update"
    /\ last.feedback_id = "missing"
    /\ last.updates = ProtectedPayload
    /\ last.ret = FALSE
    /\ "missing" \notin StoredIds(store)
    /\ IsDict(get_feedback(store, uuid4(1)))
    /\ get_feedback(store, uuid4(1))["status"] = "new"

\* C13: an add_comment(id, content, author) that returns True appends exactly
\* one comment with that content and author at the end of the record's
\* comments: the list is one longer and the comments stored before are
\* unchanged and in their order.
C13_CommentAppended ==
    [][(/\ nops' = nops + 1
        /\ last'.op = "add_comment"
        /\ last'.ret = TRUE)
       => LET old == get_feedback(store, last'.feedback_id)
              new == get_feedback(store', last'.feedback_id)
          IN /\ IsDict(old)
             /\ IsDict(new)
             /\ Len(new["comments"]) = Len(old["comments"]) + 1
             /\ SubSeq(new["comments"], 1, Len(old["comments"])) = old["comments"]
             /\ new["comments"][Len(new["comments"])]["content"] = last'.args.comment
             /\ new["comments"][Len(new["comments"])]["author"] = last'.args.author]_vars

\* a second comment has been added to a record that had one: both are
\* stored, the earlier one first
C13_Witness ==
    /\ last.op = "add_comment"
    /\ last.ret = TRUE
    /\ LET r == get_feedback(store, last.feedback_id)
       IN /\ IsDict(r)
          /\ Len(r["comments"]) = 2
          /\ r["comments"][1]["id"] = uuid4(2)
          /\ r["comments"][2]["id"] = uuid4(3)
          /\ r["comments"][2]["content"] = "hello"
          /\ r["comments"][2]["author"] = "alice"

----------------------------------------------------------------------------
(* State machine for unchecked arguments: enum values outside the closed    *)
(* sets, None, and imported records that lack keys submit always writes;    *)
(* all calls are made on one day                                            *)

InvalidEnumInputs ==
    {[feedback_type |-> "bug", title |-> "T1", description |-> "D1",
      priority |-> "urgent", tags |-> <<"a">>, context |-> {}],
     [feedback_type |-> None, title |-> "T1", description |-> "D1",
      priority |-> "high", tags |-> <<"a">>, context |-> {}],
     [feedback_type |-> "issue", title |-> "T1", description |-> "D1",
      priority |-> "", tags |-> <<"a">>, context |-> {}]}

\* a status and a priority outside the closed sets
InvalidStatusPayload == [status |-> "bogus", priority |-> "urgent"]

\* a type that is no string
NoneTypePayload == [type |-> None]

\* a document with a record that has no "comments"
BareDocument ==
    [exported_at |-> isoformat(StartDay), total |-> 1,
     feedback |-> << [id |-> "xbare", type |-> "issue", title |-> "T3",
                      status |-> "new", priority |-> "low",
                      created_at |-> isoformat(StartDay)] >>]

UncheckedIds(count) == CallerIds(count) \cup {"xbare"}

NextUnchecked ==
    \/ \E in \in InvalidEnumInputs \cup {RichInput} : Submit(in)
    \/ \E feedback_id \in UncheckedIds(uuid_count) : Get(feedback_id)
    \/ \E feedback_id \in UncheckedIds(uuid_count),
          updates \in {InvalidStatusPayload, NoneTypePayload, ProtectedPayload} :
           Update(feedback_id, updates)
    \/ \E feedback_id \in UncheckedIds(uuid_count), in \in CommentInputs :
           AddComment(feedback_id, in)
    \/ Import(BareDocument)

SpecUnchecked == Init /\ [][NextUnchecked]_vars

\* C14: no call lets an error escape to the caller: every call completes
\* with a result of its normal type, whatever the stored records (records
\* imported verbatim included) and the arguments are.
C14_NoErrorEscapes ==
    "raised" \in DOMAIN last => last.raised = ""

\* C15: in every reachable state the status of every stored record is one of
\* the six statuses and its priority one of the four priorities.
C15_ClosedStatusPriority ==
    \A p \in DOMAIN store :
        IsRecord(store, p)
        => /\ "status" \in DOMAIN RecordAt(store, p)
                  => RecordAt(store, p)["status"] \in FeedbackStatus
           /\ "priority" \in DOMAIN RecordAt(store, p)
                  => RecordAt(store, p)["priority"] \in FeedbackPriority

\* C16: a submit with a type or a priority outside the closed sets does not
\* fail: it returns a new id, and get of that id returns the record with
\* type "other" in place of the invalid type and priority "medium" in place
\* of the invalid priority.
C16_SubmitCoercesEnums ==
    (/\ last.op = "submit"
     /\ (last.args.feedback_type \notin FeedbackType
             \/ last.args.priority \notin FeedbackPriority)
     /\ \A kv \in last.args.context : kv[2] # NonSerializable)
    => /\ last.ret # ""
       /\ last.ret = uuid4(uuid_count)
       /\ LET r == get_feedback(store, last.ret)
          IN /\ IsDict(r)
             /\ r["id"] = last.ret
             /\ r["type"] = IF last.args.feedback_type \in FeedbackType
                            THEN last.args.feedback_type ELSE "other"
             /\ r["priority"] = IF last.args.priority \in FeedbackPriority
                                THEN last.args.priority ELSE "medium"
             /\ r["title"] = last.args.title
             /\ r["status"] = "new"

\* a submit with type "bug" and priority "urgent" has returned an id whose
\* record is stored in the partition other with priority medium
C16_Witness ==
    /\ last.op = "submit"
    /\ last.args.feedback_type = "bug"
    /\ last.args.priority = "urgent"
    /\ last.ret # ""
    /\ IsRecord(store, <<"other", last.ret>>)
    /\ RecordAt(store, <<"other", last.ret>>)["type"] = "other"
    /\ RecordAt(store, <<"other", last.ret>>)["priority"] = "medium"

\* C17: a record is destroyed only by cleanup: once submit has returned an
\* id and get of it returns a record, get of it returns a record after every
\* later call that is not a cleanup, whether that call succeeds or fails.
C17_DestroyedOnlyByCleanup ==
    [][(nops' = nops + 1 /\ last'.op # "cleanup")
       => \A n \in 1..uuid_count :
              IsDict(get_feedback(store, uuid4(n)))
              => IsDict(get_feedback(store', uuid4(n)))]_vars

----------------------------------------------------------------------------
(* State machine for list: the store is built by submit, import and update  *)
(* on one day, and listed with filters, limits and directory orders; the    *)
(* imported records carry the earlier dates                                 *)

\* a record tagged only "a"
TaggedInput ==
    [feedback_type |-> "issue", title |-> "T2", description |-> "D2",
     priority |-> "high", tags |-> <<"a">>, context |-> {}]

\* the filters a caller passes; "bug" is no type and "" is no status
ListFilters ==
    {[feedback_type |-> None, status |-> None, priority |-> None, tags |-> <<>>],
     [feedback_type |-> "issue", status |-> None, priority |-> None, tags |-> <<>>],
     [feedback_type |-> "bug", status |-> "resolved", priority |-> None, tags |-> <<>>],
     [feedback_type |-> None, status |-> None, priority |-> "high", tags |-> <<"a", "b">>],
     [feedback_type |-> None, status |-> "", priority |-> "low", tags |-> <<"a">>]}

ListLimits == {0, 1, 2, 100}

\* every id a file can have in this state machine, in one order
AllIds ==
    <<"x31", "x30", "x29", "xbad", "xnone">> \o [n \in 1..MaxUuid |-> uuid4(n)]

Reverse(s) == [n \in 1..Len(s) |-> s[Len(s) + 1 - n]]

\* the orders os.listdir yields the files in: one order and its reverse
ScanOrders == {AllIds, Reverse(AllIds)}

List(filter, limit, order) ==
    /\ nops < MaxOps
    /\ last' = [op |-> "list", args |-> filter, limit |-> limit, order |-> order,
                ret |-> list_feedback(store, filter.feedback_type, filter.status,
                                      filter.priority, filter.tags, limit, order)]
    /\ nops' = nops + 1
    /\ UNCHANGED <<store, clock, uuid_count, procs, outfile, target>>

NextList ==
    \/ \E in \in {RichInput, TaggedInput} : Submit(in)
    \/ Import(AgedDocument)
    \/ \E updates \in {ProtectedPayload, UnencodablePayload} :
           uuid_count >= 1 /\ Update(uuid4(1), updates)
    \/ \E filter \in ListFilters, limit \in ListLimits, order \in ScanOrders :
           List(filter, limit, order)

SpecList == Init /\ [][NextList]_vars

\* the set of the elements of a sequence
Range(s) == {s[n] : n \in 1..Len(s)}

\* the record passes the filter: status absent or equal, priority absent or
\* equal, tags absent or every requested tag among the record's tags
Passes(r, filter) ==
    /\ Truthy(filter.status) => DictGet(r, "status", None) = filter.status
    /\ Truthy(filter.priority) => DictGet(r, "priority", None) = filter.priority
    /\ Range(filter.tags) \subseteq Range(DictGet(r, "tags", <<>>))

\* C18: list returns a record only if it passes the filter; with the tags
\* filter [a, b] a record tagged only a is never returned.
C18_ListOnlyPassing ==
    last.op = "list"
    => \A n \in 1..Len(last.ret) :
           /\ Passes(last.ret[n], last.args)
           /\ last.args.tags = <<"a", "b">> => last.ret[n]["tags"] # <<"a">>

\* the store holds a record tagged a, b and a record tagged only a, and the
\* list for tags [a, b] with a limit above their number returned only records
\* tagged a, b
C18_Witness ==
    /\ last.op = "list"
    /\ last.args.tags = <<"a", "b">>
    /\ last.limit = 100
    /\ Len(last.ret) >= 1
    /\ \E p \in DOMAIN store : IsRecord(store, p) /\ RecordAt(store, p)["tags"] = <<"a">>
                                /\ RecordAt(store, p)["priority"] = "high"
    /\ \A n \in 1..Len(last.ret) : last.ret[n]["tags"] = <<"a", "b">>

\* the day a record was created, or ValueError
Created(r) == fromisoformat(DictGet(r, "created_at", ""))

\* C19: the list is ordered by created_at, newest first: of two returned
\* records the one created strictly later comes earlier, so records created
\* at t1 < t2 < t3 are returned in the order t3, t2, t1.
C19_ListNewestFirst ==
    last.op = "list"
    => \A m, n \in 1..Len(last.ret) :
           (/\ Created(last.ret[m]) # ValueError
            /\ Created(last.ret[n]) # ValueError
            /\ Created(last.ret[m]) > Created(last.ret[n]))
           => m < n

\* three records of the directory issue, met by the scan oldest first, are
\* returned newest first
C19_Witness ==
    /\ last.op = "list"
    /\ last.args.feedback_type = "issue"
    /\ last.order = AllIds
    /\ Len(last.ret) = 3
    /\ last.ret[1]["id"] = uuid4(1)
    /\ last.ret[2]["id"] = "x30"
    /\ last.ret[3]["id"] = "x31"
    /\ Created(last.ret[1]) > Created(last.ret[2])
    /\ Created(last.ret[2]) > Created(last.ret[3])

\* the partitions a list with this type filter searches
Searched(feedback_type) ==
    IF feedback_type \in FeedbackType THEN {feedback_type} ELSE FeedbackType

\* the stored records of the searched partitions that pass the filter
Matching(st, filter) ==
    {p \in DOMAIN st : /\ p[1] \in Searched(filter.feedback_type)
                       /\ IsRecord(st, p)
                       /\ Passes(RecordAt(st, p), filter)}

\* C20: for every limit >= 0 the number of records list returns is the
\* smaller of limit and the number of stored records of the searched
\* partitions that pass the filter: when at most limit records match, all
\* of them are returned.
C20_ListCount ==
    last.op = "list"
    => LET matching == Cardinality(Matching(store, last.args))
       IN /\ Len(last.ret) = IF last.limit < matching THEN last.limit ELSE matching
          /\ matching <= last.limit
                 => {<<r["type"], r["id"]>> : r \in Range(last.ret)}
                        = Matching(store, last.args)

\* more records match than the limit allows and exactly limit are returned,
\* while a file of the searched partitions that cannot be read is skipped
C20_Witness ==
    /\ last.op = "list"
    /\ last.limit = 2
    /\ Len(last.ret) = 2
    /\ Cardinality(Matching(store, last.args)) >= 3
    /\ \E p \in DOMAIN store : ~IsRecord(store, p)

\* C21: list with a type of the closed set returns only records stored in
\* that type's partition; list with a type outside the closed set returns
\* what list without a type returns: all partitions are searched.
C21_ListTypeFilter ==
    last.op = "list"
    => /\ last.args.feedback_type \in FeedbackType
              => \A n \in 1..Len(last.ret) :
                     /\ IsRecord(store, <<last.args.feedback_type, last.ret[n]["id"]>>)
                     /\ RecordAt(store, <<last.args.feedback_type, last.ret[n]["id"]>>)
                            = last.ret[n]
       /\ (Truthy(last.args.feedback_type) /\ last.args.feedback_type \notin FeedbackType)
              => last.ret = list_feedback(store, None, last.args.status, last.args.priority,
                                          last.args.tags, last.limit, last.order)

\* list for the type issue has returned the records of the directory issue
\* while the directory other holds a record too
C21_Witness ==
    /\ last.op = "list"
    /\ last.args.feedback_type = "issue"
    /\ last.limit = 100
    /\ Len(last.ret) >= 2
    /\ IsRecord(store, <<"other", "x29">>)
    /\ \A n \in 1..Len(last.ret) : last.ret[n]["id"] # "x29"

----------------------------------------------------------------------------
(* State machine for stats: the store is built by submit, update and import *)
(* on one day, with statuses and priorities inside and outside the closed   *)
(* sets and with imported records that have neither                         *)

\* a document with a record that has no status and no priority
StatuslessDocument ==
    [exported_at |-> isoformat(StartDay), total |-> 1,
     feedback |-> << [id |-> "xplain", type |-> "question", title |-> "T3",
                      tags |-> <<>>, created_at |-> isoformat(StartDay),
                      comments |-> <<>>] >>]

Stats ==
    /\ nops < MaxOps
    /\ last' = [op |-> "stats", ret |-> get_feedback_stats(store)]
    /\ nops' = nops + 1
    /\ UNCHANGED <<store, clock, uuid_count, procs, outfile, target>>

NextStats ==
    \/ \E in \in SubmitInputs : Submit(in)
    \/ \E feedback_id \in CallerIds(uuid_count),
          updates \in {ProtectedPayload, InvalidStatusPayload, UnencodablePayload} :
           Update(feedback_id, updates)
    \/ \E import_data \in {StatuslessDocument, AgedDocument} : Import(import_data)
    \/ Stats

SpecStats == Init /\ [][NextStats]_vars

\* the readable records stored in the five partitions
StoredRecords(st) == {p \in DOMAIN st : p[1] \in FeedbackType /\ IsRecord(st, p)}

\* C22: stats returns a counter for every member of each closed set; total
\* is the number of stored records, by_type[t] the number of stored records
\* whose type is t, by_status[s] and by_priority[p] the number of stored
\* records with that status or priority, so that a record with a value
\* outside the closed set is counted in total only; on an empty store total
\* and every counter are zero.
C22_StatsCounts ==
    last.op = "stats"
    => /\ DOMAIN last.ret.by_type = FeedbackType
       /\ DOMAIN last.ret.by_status = FeedbackStatus
       /\ DOMAIN last.ret.by_priority = FeedbackPriority
       /\ last.ret.total = Cardinality(StoredRecords(store))
       /\ \A t \in FeedbackType :
              last.ret.by_type[t]
                  = Cardinality({p \in StoredRecords(store) :
                                    DictGet(RecordAt(store, p), "type", None) = t})
       /\ \A s \in FeedbackStatus :
              last.ret.by_status[s]
                  = Cardinality({p \in StoredRecords(store) :
                                    DictGet(RecordAt(store, p), "status", None) = s})
       /\ \A pr \in FeedbackPriority :
              last.ret.by_priority[pr]
                  = Cardinality({p \in StoredRecords(store) :
                                    DictGet(RecordAt(store, p), "priority", None) = pr})
       /\ store = EmptyStore
              => /\ last.ret.total = 0
                 /\ \A t \in FeedbackType : last.ret.by_type[t] = 0
                 /\ \A s \in FeedbackStatus : last.ret.by_status[s] = 0
                 /\ \A pr \in FeedbackPriority : last.ret.by_priority[pr] = 0

\* C28: stats and list agree: for every status s of the closed set
\* by_status[s] is the number of records list(status=s) returns with a limit
\* above the number of stored records, and by_priority[p] the number
\* list(priority=p) returns.
C28_StatsAgreeWithList ==
    last.op = "stats"
    => \A order \in ListingOrders(StoredIds(store)) :
           /\ \A s \in FeedbackStatus :
                  last.ret.by_status[s]
                      = Len(list_feedback(store, None, s, None, <<>>,
                                          Cardinality(DOMAIN store) + 1, order))
           /\ \A pr \in FeedbackPriority :
                  last.ret.by_priority[pr]
                      = Len(list_feedback(store, None, None, pr, <<>>,
                                          Cardinality(DOMAIN store) + 1, order))

----------------------------------------------------------------------------
(* State machine for updates of the type and of updated_at: payloads with   *)
(* a type inside and outside the closed set, and with an updated_at         *)

\* a payload that carries an updated_at
StampPayload == [updated_at |-> "1999-01-01", title |-> "T9"]

\* types outside the closed set: a name without a directory, the empty
\* string, and a type of the closed set followed by a slash
UnknownTypePayload == [type |-> "bug"]

EmptyTypePayload == [type |-> ""]

SlashTypePayload == [type |-> "other/"]

TypePayloads ==
    {StampPayload, RetypePayload, UnknownTypePayload, EmptyTypePayload, SlashTypePayload}

NextRetype ==
    \/ Tick
    \/ \E in \in SubmitInputs : Submit(in)
    \/ \E feedback_id \in CallerIds(uuid_count) : Get(feedback_id)
    \/ \E feedback_id \in CallerIds(uuid_count), updates \in TypePayloads :
           Update(feedback_id, updates)
    \/ \E feedback_id \in CallerIds(uuid_count), in \in CommentInputs :
           AddComment(feedback_id, in)

SpecRetype == Init /\ [][NextRetype]_vars

\* C23: every update and every add_comment that returns True sets the
\* record's updated_at to the time of the call, also when the payload
\* carries an updated_at, and created_at keeps its value.
C23_UpdatedAtRefreshed ==
    [][(/\ nops' = nops + 1
        /\ last'.op \in {"update", "add_comment"}
        /\ last'.ret = TRUE)
       => LET old == get_feedback(store, last'.feedback_id)
              new == get_feedback(store', last'.feedback_id)
          IN /\ IsDict(new)
             /\ new["updated_at"] = isoformat(clock)
             /\ new["created_at"] = old["created_at"]]_vars

\* C26: read-your-writes: after an update(id, updates) that returns True,
\* get(id) returns a record in which every key of updates other than id and
\* created_at has the value given in updates.
C26_ReadYourWrites ==
    [][(/\ nops' = nops + 1
        /\ last'.op = "update"
        /\ last'.ret = TRUE)
       => LET new == get_feedback(store', last'.feedback_id)
          IN /\ IsDict(new)
             /\ \A k \in (DOMAIN last'.updates) \ {"id", "created_at"} :
                    k \in DOMAIN new /\ new[k] = last'.updates[k]]_vars

\* C27: in every reachable state the type field of each record stored in a
\* partition is the name of that partition.
C27_TypeIsPartition ==
    \A p \in DOMAIN store :
        (p[1] \in FeedbackType /\ IsRecord(store, p))
        => DictGet(RecordAt(store, p), "type", None) = p[1]

\* C30: an update of an existing record with a payload whose type is outside
\* the closed set returns False and leaves the store as it was: the record
\* keeps its type, fields and updated_at and no file is created.
C30_UnknownTypeRejected ==
    [][(/\ nops' = nops + 1
        /\ last'.op = "update"
        /\ IsDict(get_feedback(store, last'.feedback_id))
        /\ "type" \in DOMAIN last'.updates
        /\ last'.updates["type"] \notin FeedbackType)
       => (last'.ret = FALSE /\ store' = store)]_vars

----------------------------------------------------------------------------
(* Atomicity of update (Spec) *)

\* C24: update persists atomically per record: after an update of an id,
\* whether it returned True or False, get of that id returns either the
\* complete record of before the update or the complete updated record,
\* never nothing and never an empty, partial or unreadable record.
C24_UpdateAtomic ==
    [][(/\ nops' = nops + 1
        /\ last'.op = "update"
        /\ IsDict(get_feedback(store, last'.feedback_id)))
       => \/ get_feedback(store', last'.feedback_id)
                 = get_feedback(store, last'.feedback_id)
          \/ get_feedback(store', last'.feedback_id)
                 = update_load(store, last'.feedback_id, last'.updates, clock)]_vars

----------------------------------------------------------------------------
(* Early termination of the list scan (SpecList) *)

\* the files the scan of a list call meets that hold a record passing the
\* filter, in the order the scan meets them
MatchingInScanOrder(st, filter, order) ==
    SelectSeq(scan_paths(st, directories(filter.feedback_type), order),
              LAMBDA p : IsRecord(st, p) /\ Passes(RecordAt(st, p), filter))

\* C25: the early termination of list does not give the newest records: when
\* more records match than limit, list returns the first limit matching
\* records the scan meets, whatever their age, so that there is a reachable
\* state in which it returns a record older than a matching record it omits.
C25_FirstScannedNotNewest ==
    (last.op = "list" /\ last.limit >= 1)
    => LET matching == MatchingInScanOrder(store, last.args, last.order)
       IN Len(matching) > last.limit
          => {<<r["type"], r["id"]>> : r \in Range(last.ret)}
                 = {matching[n] : n \in 1..last.limit}

\* all partitions were searched with limit 2: list returned the two records
\* of the directory issue and omitted the newer record of the directory other
C25_Witness ==
    /\ last.op = "list"
    /\ last.args.feedback_type = None
    /\ last.limit = 2
    /\ Len(last.ret) = 2
    /\ \E p \in Matching(store, last.args) :
           /\ \A n \in 1..Len(last.ret) : last.ret[n]["id"] # p[2]
           /\ \E n \in 1..Len(last.ret) :
                  /\ Created(last.ret[n]) # ValueError
                  /\ Created(RecordAt(store, p)) # ValueError
                  /\ Created(last.ret[n]) < Created(RecordAt(store, p))
                  /\ last.ret[n]["type"] # p[1]

----------------------------------------------------------------------------
(* State machine for cleanup next to concurrent callers: a third caller     *)
(* runs cleanup while a process is between its read and its write           *)

\* cleanup_old_feedback(0) while a call is in flight; a process that has read
\* a record whose file is removed now holds a stale copy
ConcurrentCleanup ==
    /\ nops < MaxOps
    /\ \E p \in Procs : procs[p].pc = "loaded"
    /\ LET r == cleanup_old_feedback(store, 0, None, clock)
       IN /\ store' = r.st
          /\ last' = [op |-> "cleanup", days |-> 0, status |-> None, ret |-> r.ret]
          /\ procs' = [q \in Procs |->
                 IF /\ procs[q].pc = "loaded"
                    /\ <<procs[q].data["type"], procs[q].feedback_id>> \in DOMAIN store
                    /\ <<procs[q].data["type"], procs[q].feedback_id>> \notin DOMAIN r.st
                 THEN [procs[q] EXCEPT !.stale = TRUE]
                 ELSE procs[q]]
    /\ nops' = nops + 1
    /\ UNCHANGED <<clock, uuid_count, outfile, target>>

NextConcurrentCleanup ==
    \/ NextConcurrent
    \/ ConcurrentCleanup

SpecConcurrentCleanup == Init /\ [][NextConcurrentCleanup]_vars

\* C29: a record removed by cleanup can reappear: when an update or
\* add_comment has read the record, cleanup then removes it and counts it,
\* and the update or add_comment then writes, the call returns True and the
\* record is stored again, as the caller computed it from the copy it read.
C29_RemovedRecordReappears ==
    [][\A p \in Procs :
          (/\ last.op = "cleanup"
           /\ last.ret >= 1
           /\ procs[p].pc = "loaded"
           /\ procs'[p].pc = "done"
           /\ get_feedback(store, procs[p].feedback_id) = NotFound)
          => /\ procs'[p].ret = TRUE
             /\ get_feedback(store', procs[p].feedback_id) = procs[p].data]_vars

\* process 1 read the record, cleanup removed it, and the add_comment of
\* process 1 then returned True: the record is stored again, with the
\* comment, while process 2 has not made a call
C29_Witness ==
    /\ procs[1].pc = "done"
    /\ procs[2].pc = "idle"
    /\ procs[1].op = "add_comment"
    /\ procs[1].stale
    /\ procs[1].ret
    /\ last.op = "add_comment"
    /\ IsRecord(store, <<"issue", uuid4(1)>>)
    /\ Len(RecordAt(store, <<"issue", uuid4(1)>>)["comments"]) = 1

====
